---- MODULE Spec2Model ----
(***************************************************************************)
(* A model of the money-pooling app's persisted schema                     *)
(* (src/convex/schema.ts) and of its root layout (src/app/layout.tsx).     *)
(*                                                                         *)
(* The schema is a set of table definitions built from validators.  The    *)
(* model keeps the validators as data, computes document validation from   *)
(* them, and drives a database through mutations, each performing one      *)
(* schema-validated write (insert, patch, replace or delete).  The layout  *)
(* is a pure function from page content to an element tree.                *)
(***************************************************************************)
EXTENDS Integers, Sequences, FiniteSets, TLC

VARIABLES
    db,        \* the stored rows: id -> [tbl, fields, ctime]
    nextId,    \* the next document id to hand out
    nCalls,    \* mutations started so far
    last,      \* the write of the mutation in progress and its outcome
    page,      \* the child content handed to RootLayout
    rendered   \* <<>> before rendering, <<tree>> after

vars == <<db, nextId, nCalls, last, page, rendered>>

----------------------------------------------------------------------------
(* Bounds of the model.                                                    *)

\* mutations per behaviour of the table-focused specifications
MaxWrites == 2
\* mutations per behaviour of the whole-schema specification
MaxSchemaWrites == 1
\* elements of child content handed to the layout
MaxChildren == 3

----------------------------------------------------------------------------
(* Values.  A value is a record with one slot per kind, so that any two    *)
(* values can be compared; the slots a kind does not use hold a default.   *)

NoFields == [f \in {} |-> 0]

Val(k, s, n, b, a, o) == [k |-> k, s |-> s, n |-> n, b |-> b, a |-> a, o |-> o]

Str(s)   == Val("string", s, 0, FALSE, <<>>, NoFields)
Num(n)   == Val("number", "", n, FALSE, <<>>, NoFields)
Bool(b)  == Val("boolean", "", 0, b, <<>>, NoFields)
Null     == Val("null", "", 0, FALSE, <<>>, NoFields)
Undefined == Val("undefined", "", 0, FALSE, <<>>, NoFields)
\* a document id: an opaque string that names its table
Id(t, n) == Val("id", t, n, FALSE, <<>>, NoFields)
Arr(a)   == Val("array", "", 0, FALSE, a, NoFields)
Obj(o)   == Val("object", "", 0, FALSE, <<>>, o)

----------------------------------------------------------------------------
(* Validators, as the schema builds them with v.*                          *)

vString      == [vk |-> "string"]
vNumber      == [vk |-> "number"]
vBoolean     == [vk |-> "boolean"]
vAny         == [vk |-> "any"]
vId(t)       == [vk |-> "id", table |-> t]
vLiteral(l)  == [vk |-> "literal", lit |-> l]
vUnion(ms)   == [vk |-> "union", members |-> ms]
vOptional(x) == [vk |-> "optional", inner |-> x]
vObject(fs)  == [vk |-> "object", fields |-> fs]
vArray(x)    == [vk |-> "array", element |-> x]

\* a union of string literals, in source order
Literals(ls) == vUnion([i \in 1..Len(ls) |-> vLiteral(ls[i])])

\* the literal strings a union of literals admits
LiteralsOf(u) == {u.members[i].lit : i \in 1..Len(u.members)}

\* variant: the union also lists the bare TenantAdmin the users.role comment names
userRoles_withBareTenantAdmin ==
    Literals(<<"PlatformAdmin", "TenantAdmin", "TenantAdmin_Manager",
               "TenantAdmin_HR", "TenantAdmin_Sales", "TenantAdmin_Marketing",
               "TenantAdmin_Support", "TenantAdmin_Finance", "RegularUser">>)

userRoles ==
    Literals(<<"PlatformAdmin", "TenantAdmin_Manager", "TenantAdmin_HR",
               "TenantAdmin_Sales", "TenantAdmin_Marketing",
               "TenantAdmin_Support", "TenantAdmin_Finance", "RegularUser">>)

transactionTypes ==
    Literals(<<"Deposit", "Withdrawal", "GameEntry", "GamePayout",
               "CommissionEarned", "ReferralBonus">>)

paymentRequestStatus == Literals(<<"Pending", "Verified", "Rejected">>)

\* variant: the union lists one status more
gameStatus_withStarted ==
    Literals(<<"Pending", "Open", "Filling", "Full", "Started", "Active",
               "Completed", "Cancelled">>)

gameStatus ==
    Literals(<<"Pending", "Open", "Filling", "Full", "Active", "Completed",
               "Cancelled">>)

notificationChannels == Literals(<<"InApp", "Telegram", "Email">>)

referralCampaignStatus == Literals(<<"Active", "Paused", "Completed">>)

----------------------------------------------------------------------------
(* The tables: defineTable({...}).index(...)...                            *)

\* variant: email is required
users_emailRequired ==
    [fields |->
        [clerkId |-> vOptional(vString),
         telegramId |-> vOptional(vString),
         telegramUsername |-> vOptional(vString),
         name |-> vString,
         email |-> vString,
         passwordHash |-> vOptional(vString),
         role |-> userRoles,
         tenantId |-> vOptional(vId("tenants")),
         profilePictureUrl |-> vOptional(vString),
         lastLogin |-> vNumber,
         isActive |-> vBoolean,
         onboardingCompleted |-> vBoolean,
         telegramNotificationsEnabled |-> vBoolean,
         inAppNotificationsEnabled |-> vBoolean,
         referralCode |-> vString,
         referredBy |-> vOptional(vString)],
     indexes |->
        [by_clerkId |-> <<"clerkId">>,
         by_telegramId |-> <<"telegramId">>,
         by_email |-> <<"email">>,
         by_role |-> <<"role">>,
         by_tenantId |-> <<"tenantId">>]]

users ==
    [fields |->
        [clerkId |-> vOptional(vString),
         telegramId |-> vOptional(vString),
         telegramUsername |-> vOptional(vString),
         name |-> vString,
         email |-> vOptional(vString),
         passwordHash |-> vOptional(vString),
         role |-> userRoles,
         tenantId |-> vOptional(vId("tenants")),
         profilePictureUrl |-> vOptional(vString),
         lastLogin |-> vNumber,
         isActive |-> vBoolean,
         onboardingCompleted |-> vBoolean,
         telegramNotificationsEnabled |-> vBoolean,
         inAppNotificationsEnabled |-> vBoolean,
         referralCode |-> vString,
         referredBy |-> vOptional(vString)],
     indexes |->
        [by_clerkId |-> <<"clerkId">>,
         by_telegramId |-> <<"telegramId">>,
         by_email |-> <<"email">>,
         by_role |-> <<"role">>,
         by_tenantId |-> <<"tenantId">>]]

tenants ==
    [fields |->
        [name |-> vString,
         status |-> Literals(<<"Active", "Suspended", "Pending">>),
         managerEmail |-> vString,
         settings |-> vObject(
            [commissionRate |-> vNumber,
             paymentProvider |-> vOptional(vString),
             paymentProviderConfig |-> vOptional(vAny)])],
     indexes |->
        [by_name |-> <<"name">>,
         by_status |-> <<"status">>]]

employees ==
    [fields |->
        [userId |-> vId("users"),
         tenantId |-> vId("tenants"),
         role |-> userRoles,
         isActive |-> vBoolean],
     indexes |->
        [by_userId |-> <<"userId">>,
         by_tenantId |-> <<"tenantId">>,
         by_tenantId_userId |-> <<"tenantId", "userId">>,
         by_tenantId_role |-> <<"tenantId", "role">>]]

participant ==
    vObject([userId |-> vId("users"),
             selectedNumber |-> vNumber,
             joinedAt |-> vNumber,
             isWinner |-> vOptional(vBoolean)])

\* variant: currentPlayers takes any value
games_countUntyped ==
    [fields |->
        [tenantId |-> vId("tenants"),
         name |-> vString,
         entryFee |-> vNumber,
         maxPlayers |-> vNumber,
         description |-> vOptional(vString),
         status |-> gameStatus,
         currentPlayers |-> vAny,
         participants |-> vArray(participant),
         startTime |-> vOptional(vNumber),
         endTime |-> vOptional(vNumber),
         winnerId |-> vOptional(vId("users")),
         winningNumber |-> vOptional(vNumber),
         commissionEarned |-> vOptional(vNumber)],
     indexes |->
        [by_tenantId |-> <<"tenantId">>,
         by_status |-> <<"status">>,
         by_tenantId_status |-> <<"tenantId", "status">>]]

\* variant: by_tenantId_status keys on the tenant alone
games_indexWithoutStatus ==
    [fields |->
        [tenantId |-> vId("tenants"),
         name |-> vString,
         entryFee |-> vNumber,
         maxPlayers |-> vNumber,
         description |-> vOptional(vString),
         status |-> gameStatus,
         currentPlayers |-> vNumber,
         participants |-> vArray(participant),
         startTime |-> vOptional(vNumber),
         endTime |-> vOptional(vNumber),
         winnerId |-> vOptional(vId("users")),
         winningNumber |-> vOptional(vNumber),
         commissionEarned |-> vOptional(vNumber)],
     indexes |->
        [by_tenantId |-> <<"tenantId">>,
         by_status |-> <<"status">>,
         by_tenantId_status |-> <<"tenantId">>]]

games ==
    [fields |->
        [tenantId |-> vId("tenants"),
         name |-> vString,
         entryFee |-> vNumber,
         maxPlayers |-> vNumber,
         description |-> vOptional(vString),
         status |-> gameStatus,
         currentPlayers |-> vNumber,
         participants |-> vArray(participant),
         startTime |-> vOptional(vNumber),
         endTime |-> vOptional(vNumber),
         winnerId |-> vOptional(vId("users")),
         winningNumber |-> vOptional(vNumber),
         commissionEarned |-> vOptional(vNumber)],
     indexes |->
        [by_tenantId |-> <<"tenantId">>,
         by_status |-> <<"status">>,
         by_tenantId_status |-> <<"tenantId", "status">>]]

gameTemplates ==
    [fields |->
        [tenantId |-> vId("tenants"),
         name |-> vString,
         defaultEntryFee |-> vNumber,
         defaultMaxPlayers |-> vNumber,
         description |-> vOptional(vString)],
     indexes |->
        [by_tenantId |-> <<"tenantId">>]]

\* variant: ownerId is optional
wallets_ownerOptional ==
    [fields |->
        [ownerId |-> vOptional(vId("users")),
         tenantId |-> vOptional(vId("tenants")),
         balance |-> vNumber,
         type |-> Literals(<<"User", "Tenant", "Platform">>)],
     indexes |->
        [by_ownerId |-> <<"ownerId">>,
         by_tenantId |-> <<"tenantId">>,
         by_type |-> <<"type">>,
         by_ownerId_type |-> <<"ownerId", "type">>]]

wallets ==
    [fields |->
        [ownerId |-> vId("users"),
         tenantId |-> vOptional(vId("tenants")),
         balance |-> vNumber,
         type |-> Literals(<<"User", "Tenant", "Platform">>)],
     indexes |->
        [by_ownerId |-> <<"ownerId">>,
         by_tenantId |-> <<"tenantId">>,
         by_type |-> <<"type">>,
         by_ownerId_type |-> <<"ownerId", "type">>]]

transactions ==
    [fields |->
        [userId |-> vOptional(vId("users")),
         tenantId |-> vOptional(vId("tenants")),
         type |-> transactionTypes,
         amount |-> vNumber,
         description |-> vString,
         status |-> Literals(<<"Pending", "Completed", "Failed", "Reversed">>),
         relatedGameId |-> vOptional(vId("games")),
         relatedPaymentId |-> vOptional(vId("payments")),
         relatedTransactionId |-> vOptional(vId("transactions"))],
     indexes |->
        [by_userId |-> <<"userId">>,
         by_tenantId |-> <<"tenantId">>,
         by_type |-> <<"type">>,
         by_status |-> <<"status">>,
         by_userId_type |-> <<"userId", "type">>,
         by_tenantId_type |-> <<"tenantId", "type">>]]

payments ==
    [fields |->
        [userId |-> vId("users"),
         tenantId |-> vId("tenants"),
         amount |-> vNumber,
         screenshotId |-> vId("_storage"),
         status |-> paymentRequestStatus,
         paymentMethod |-> vString,
         referenceCode |-> vString,
         verificationNotes |-> vOptional(vString),
         verifiedBy |-> vOptional(vId("users")),
         verifiedAt |-> vOptional(vNumber)],
     indexes |->
        [by_userId |-> <<"userId">>,
         by_tenantId |-> <<"tenantId">>,
         by_status |-> <<"status">>,
         by_tenantId_status |-> <<"tenantId", "status">>]]

notifications ==
    [fields |->
        [userId |-> vId("users"),
         tenantId |-> vOptional(vId("tenants")),
         type |-> Literals(<<"GameUpdate", "Wallet", "System", "Marketing">>),
         title |-> vString,
         message |-> vString,
         isRead |-> vBoolean,
         channel |-> notificationChannels,
         relatedEntityId |-> vOptional(vId("games"))],
     indexes |->
        [by_userId |-> <<"userId">>,
         by_tenantId |-> <<"tenantId">>,
         by_userId_isRead |-> <<"userId", "isRead">>,
         by_tenantId_isRead |-> <<"tenantId", "isRead">>]]

auditLogs ==
    [fields |->
        [actorId |-> vId("users"),
         actorRole |-> userRoles,
         tenantId |-> vOptional(vId("tenants")),
         actionType |-> vString,
         resourceType |-> vString,
         resourceId |-> vOptional(vId("any")),
         details |-> vAny],
     indexes |->
        [by_actorId |-> <<"actorId">>,
         by_tenantId |-> <<"tenantId">>,
         by_actionType |-> <<"actionType">>,
         by_resourceId |-> <<"resourceId">>,
         by_creationTime |-> <<"_creationTime">>]]

platformSettings ==
    [fields |->
        [key |-> vString,
         value |-> vAny,
         description |-> vOptional(vString)],
     indexes |->
        [by_key |-> <<"key">>]]

commissionOverrides ==
    [fields |->
        [tenantId |-> vId("tenants"),
         rate |-> vNumber,
         startDate |-> vNumber,
         endDate |-> vOptional(vNumber)],
     indexes |->
        [by_tenantId |-> <<"tenantId">>,
         by_startDate |-> <<"startDate">>]]

referralCampaigns ==
    [fields |->
        [tenantId |-> vId("tenants"),
         name |-> vString,
         code |-> vString,
         status |-> referralCampaignStatus,
         rewardType |-> Literals(<<"FlatAmount", "Percentage">>),
         rewardValue |-> vNumber,
         minReferredDeposit |-> vOptional(vNumber),
         startDate |-> vNumber,
         endDate |-> vOptional(vNumber),
         description |-> vOptional(vString)],
     indexes |->
        [by_tenantId |-> <<"tenantId">>,
         by_code |-> <<"code">>]]

supportTickets ==
    [fields |->
        [userId |-> vId("users"),
         tenantId |-> vOptional(vId("tenants")),
         subject |-> vString,
         message |-> vString,
         status |-> Literals(<<"Open", "Pending", "Closed">>),
         priority |-> Literals(<<"Low", "Medium", "High">>),
         assignedTo |-> vOptional(vId("users")),
         replies |-> vArray(vObject(
            [userId |-> vId("users"),
             message |-> vString,
             timestamp |-> vNumber])),
         attachments |-> vOptional(vArray(vId("_storage")))],
     indexes |->
        [by_userId |-> <<"userId">>,
         by_tenantId |-> <<"tenantId">>,
         by_status |-> <<"status">>,
         by_assignedTo |-> <<"assignedTo">>]]

\* defineSchema({...}): the tables by name
Schema ==
    [users |-> users,
     tenants |-> tenants,
     employees |-> employees,
     games |-> games,
     gameTemplates |-> gameTemplates,
     wallets |-> wallets,
     transactions |-> transactions,
     payments |-> payments,
     notifications |-> notifications,
     auditLogs |-> auditLogs,
     platformSettings |-> platformSettings,
     commissionOverrides |-> commissionOverrides,
     referralCampaigns |-> referralCampaigns,
     supportTickets |-> supportTickets]

TableNames == DOMAIN Schema

\* variant: defineSchema(..., {schemaValidation: false})
schemaValidation_off == FALSE

\* defineSchema is called without options: documents are validated on write
schemaValidation == TRUE

----------------------------------------------------------------------------
(* Validation of a value against a validator.                              *)

RECURSIVE Validates(_, _)
RECURSIVE ValidatesFields(_, _)

\* An id is a string at run time, so v.string() admits it; v.id(t) admits
\* only the ids of table t.  v.optional(x) is x for a field that is present.
Validates(v, x) ==
    CASE v.vk = "string"   -> x.k \in {"string", "id"}
      [] v.vk = "number"   -> x.k = "number"
      [] v.vk = "boolean"  -> x.k = "boolean"
      [] v.vk = "any"      -> TRUE
      [] v.vk = "id"       -> x.k = "id" /\ x.s = v.table
      [] v.vk = "literal"  -> x.k = "string" /\ x.s = v.lit
      [] v.vk = "union"    -> \E i \in 1..Len(v.members) : Validates(v.members[i], x)
      [] v.vk = "optional" -> Validates(v.inner, x)
      [] v.vk = "object"   -> x.k = "object" /\ ValidatesFields(v.fields, x.o)
      [] v.vk = "array"    -> x.k = "array"
                              /\ \A i \in 1..Len(x.a) : Validates(v.element, x.a[i])

\* An object validator admits exactly its declared fields: each present
\* field validates, each absent field is declared optional.
ValidatesFields(fs, o) ==
    /\ DOMAIN o \subseteq DOMAIN fs
    /\ \A f \in DOMAIN fs :
          IF f \in DOMAIN o THEN Validates(fs[f], o[f])
          ELSE fs[f].vk = "optional"

\* a document of table t has the shape the table declares
ValidDocument(t, doc) == ValidatesFields(Schema[t].fields, doc)

\* a write is accepted when validation is off or the document is valid
Accepts(t, doc) == schemaValidation => ValidDocument(t, doc)

----------------------------------------------------------------------------
(* Documents handed to the writes.                                         *)

Drop(d, f) == [g \in DOMAIN d \ {f} |-> d[g]]

Put(d, f, x) == [g \in DOMAIN d \cup {f} |-> IF g = f THEN x ELSE d[g]]

Restrict(d, fs) == [g \in DOMAIN d \cap fs |-> d[g]]

\* db.patch merges shallowly; a field patched to undefined is removed
Merge(d, set, unset) ==
    [g \in (DOMAIN d \cup DOMAIN set) \ unset |->
        IF g \in DOMAIN set THEN set[g] ELSE d[g]]

Player1 ==
    Obj([userId |-> Id("users", 1), selectedNumber |-> Num(7), joinedAt |-> Num(1)])

Player2 ==
    Obj([userId |-> Id("users", 2), selectedNumber |-> Num(3), joinedAt |-> Num(2),
         isWinner |-> Bool(FALSE)])

\* a participant without its chosen number
PlayerNoNumber == Obj([userId |-> Id("users", 1), joinedAt |-> Num(1)])

\* one record per table with every declared field supplied
FullRecords ==
    [users |->
        [clerkId |-> Str("clerk_1"), telegramId |-> Str("tg_1"),
         telegramUsername |-> Str("abebe"), name |-> Str("Abebe"),
         email |-> Str("abebe@example.com"), passwordHash |-> Str("hash"),
         role |-> Str("RegularUser"), tenantId |-> Id("tenants", 1),
         profilePictureUrl |-> Str("pic.png"), lastLogin |-> Num(0),
         isActive |-> Bool(TRUE), onboardingCompleted |-> Bool(FALSE),
         telegramNotificationsEnabled |-> Bool(TRUE),
         inAppNotificationsEnabled |-> Bool(TRUE),
         referralCode |-> Str("REF1"), referredBy |-> Str("REF0")],
     tenants |->
        [name |-> Str("Acme"), status |-> Str("Pending"),
         managerEmail |-> Str("boss@acme.io"),
         settings |-> Obj([commissionRate |-> Num(5)])],
     employees |->
        [userId |-> Id("users", 1), tenantId |-> Id("tenants", 1),
         role |-> Str("TenantAdmin_Manager"), isActive |-> Bool(TRUE)],
     games |->
        [tenantId |-> Id("tenants", 1), name |-> Str("Friday pool"),
         entryFee |-> Num(100), maxPlayers |-> Num(2),
         description |-> Str("weekly"), status |-> Str("Open"),
         currentPlayers |-> Num(0), participants |-> Arr(<<>>),
         startTime |-> Num(10), endTime |-> Num(20),
         winnerId |-> Id("users", 1), winningNumber |-> Num(7),
         commissionEarned |-> Num(5)],
     gameTemplates |->
        [tenantId |-> Id("tenants", 1), name |-> Str("Standard"),
         defaultEntryFee |-> Num(100), defaultMaxPlayers |-> Num(10),
         description |-> Str("default")],
     wallets |->
        [ownerId |-> Id("users", 1), tenantId |-> Id("tenants", 1),
         balance |-> Num(0), type |-> Str("User")],
     transactions |->
        [userId |-> Id("users", 1), tenantId |-> Id("tenants", 1),
         type |-> Str("Deposit"), amount |-> Num(100),
         description |-> Str("top-up"), status |-> Str("Pending"),
         relatedGameId |-> Id("games", 1), relatedPaymentId |-> Id("payments", 1),
         relatedTransactionId |-> Id("transactions", 1)],
     payments |->
        [userId |-> Id("users", 1), tenantId |-> Id("tenants", 1),
         amount |-> Num(100), screenshotId |-> Id("_storage", 1),
         status |-> Str("Pending"), paymentMethod |-> Str("Bank Transfer"),
         referenceCode |-> Str("TX-1"), verificationNotes |-> Str("seen"),
         verifiedBy |-> Id("users", 2), verifiedAt |-> Num(30)],
     notifications |->
        [userId |-> Id("users", 1), tenantId |-> Id("tenants", 1),
         type |-> Str("System"), title |-> Str("Hello"),
         message |-> Str("Welcome"), isRead |-> Bool(FALSE),
         channel |-> Str("InApp"), relatedEntityId |-> Id("games", 1)],
     auditLogs |->
        [actorId |-> Id("users", 1), actorRole |-> Str("PlatformAdmin"),
         tenantId |-> Id("tenants", 1), actionType |-> Str("GAME_UPDATED"),
         resourceType |-> Str("Game"), resourceId |-> Id("games", 1),
         details |-> Obj([old |-> Str("Open"), new |-> Str("Full")])],
     platformSettings |->
        [key |-> Str("maintenanceMode"), value |-> Bool(FALSE),
         description |-> Str("flag")],
     commissionOverrides |->
        [tenantId |-> Id("tenants", 1), rate |-> Num(3), startDate |-> Num(1),
         endDate |-> Num(9)],
     referralCampaigns |->
        [tenantId |-> Id("tenants", 1), name |-> Str("Launch"),
         code |-> Str("LAUNCH"), status |-> Str("Active"),
         rewardType |-> Str("FlatAmount"), rewardValue |-> Num(500),
         minReferredDeposit |-> Num(100), startDate |-> Num(1),
         endDate |-> Num(9), description |-> Str("promo")],
     supportTickets |->
        [userId |-> Id("users", 1), tenantId |-> Id("tenants", 1),
         subject |-> Str("Help"), message |-> Str("Stuck"),
         status |-> Str("Open"), priority |-> Str("Low"),
         assignedTo |-> Id("users", 2), replies |-> Arr(<<>>),
         attachments |-> Arr(<<Id("_storage", 1)>>)]]

\* the fields a record of each table must supply
RequiredOf ==
    [users |-> {"name", "role", "lastLogin", "isActive", "onboardingCompleted",
                "telegramNotificationsEnabled", "inAppNotificationsEnabled",
                "referralCode"},
     tenants |-> {"name", "status", "managerEmail", "settings"},
     employees |-> {"userId", "tenantId", "role", "isActive"},
     games |-> {"tenantId", "name", "entryFee", "maxPlayers", "status",
                "currentPlayers", "participants"},
     gameTemplates |-> {"tenantId", "name", "defaultEntryFee", "defaultMaxPlayers"},
     wallets |-> {"ownerId", "balance", "type"},
     transactions |-> {"type", "amount", "description", "status"},
     payments |-> {"userId", "tenantId", "amount", "screenshotId", "status",
                   "paymentMethod", "referenceCode"},
     notifications |-> {"userId", "type", "title", "message", "isRead", "channel"},
     auditLogs |-> {"actorId", "actorRole", "actionType", "resourceType", "details"},
     platformSettings |-> {"key", "value"},
     commissionOverrides |-> {"tenantId", "rate", "startDate"},
     referralCampaigns |-> {"tenantId", "name", "code", "status", "rewardType",
                            "rewardValue", "startDate"},
     supportTickets |-> {"userId", "subject", "message", "status", "priority",
                         "replies"}]

FieldNames(t) == DOMAIN FullRecords[t]

OptionalOf(t) == FieldNames(t) \ RequiredOf[t]

\* the record of table t with every optional field omitted
MinimalRecord(t) == Restrict(FullRecords[t], RequiredOf[t])

RoleLiterals ==
    {"PlatformAdmin", "TenantAdmin_Manager", "TenantAdmin_HR", "TenantAdmin_Sales",
     "TenantAdmin_Marketing", "TenantAdmin_Support", "TenantAdmin_Finance",
     "RegularUser"}

GameStatusLiterals ==
    {"Pending", "Open", "Filling", "Full", "Active", "Completed", "Cancelled"}

\* the literal strings each enumerated field is documented to take
ExpectedLiterals ==
    [users |-> [role |-> RoleLiterals],
     tenants |-> [status |-> {"Active", "Suspended", "Pending"}],
     employees |-> [role |-> RoleLiterals],
     games |-> [status |-> GameStatusLiterals],
     gameTemplates |-> NoFields,
     wallets |-> [type |-> {"User", "Tenant", "Platform"}],
     transactions |-> [type |-> {"Deposit", "Withdrawal", "GameEntry", "GamePayout",
                                 "CommissionEarned", "ReferralBonus"},
                       status |-> {"Pending", "Completed", "Failed", "Reversed"}],
     payments |-> [status |-> {"Pending", "Verified", "Rejected"}],
     notifications |-> [type |-> {"GameUpdate", "Wallet", "System", "Marketing"},
                        channel |-> {"InApp", "Telegram", "Email"}],
     auditLogs |-> [actorRole |-> RoleLiterals],
     platformSettings |-> NoFields,
     commissionOverrides |-> NoFields,
     referralCampaigns |-> [status |-> {"Active", "Paused", "Completed"},
                            rewardType |-> {"FlatAmount", "Percentage"}],
     supportTickets |-> [status |-> {"Open", "Pending", "Closed"},
                         priority |-> {"Low", "Medium", "High"}]]

\* strings no enumeration of the schema lists
StrayLiterals == {"TenantAdmin", "Started", "Unknown"}

\* a value of another kind than x
WrongKind(x) ==
    CASE x.k = "string"  -> Num(7)
      [] x.k = "number"  -> Str("7")
      [] x.k = "boolean" -> Num(1)
      [] x.k = "id"      -> IF x.s = "users" THEN Id("tenants", 1) ELSE Id("users", 1)
      [] x.k = "array"   -> Str("[]")
      [] x.k = "object"  -> Arr(<<>>)
      [] OTHER           -> Null

\* further values tried for the fields the lookups and counters read
ExtraValues(t, f) ==
    CASE t = "games" /\ f = "currentPlayers" -> {Num(1), Num(2)}
      [] t = "games" /\ f = "participants"   ->
            {Arr(<<Player1>>), Arr(<<Player1, Player2>>), Arr(<<PlayerNoNumber>>)}
      [] t = "games" /\ f = "tenantId"       -> {Id("tenants", 2)}
      [] t = "wallets" /\ f = "ownerId"      -> {Id("users", 2)}
      [] OTHER                               -> {}

\* the values tried for field f of table t
FieldPool(t, f) ==
    IF f \notin FieldNames(t) THEN {Str("x")}
    ELSE {WrongKind(FullRecords[t][f])}
         \cup (IF f \in OptionalOf(t) THEN {FullRecords[t][f], Null} ELSE {})
         \cup (IF f \in DOMAIN ExpectedLiterals[t]
               THEN {Str(l) : l \in ExpectedLiterals[t][f] \cup StrayLiterals}
               ELSE {})
         \cup ExtraValues(t, f)

\* a tenant's pool wallet and the platform's wallet
TenantWallet ==
    [ownerId |-> Id("users", 1), tenantId |-> Id("tenants", 1), balance |-> Num(0),
     type |-> Str("Tenant")]

PlatformWallet ==
    [ownerId |-> Id("users", 1), tenantId |-> Id("tenants", 1), balance |-> Num(0),
     type |-> Str("Platform")]

BaseRecords(t) ==
    {MinimalRecord(t)} \cup (IF t = "wallets" THEN {TenantWallet, PlatformWallet} ELSE {})

\* a base record, or one with a field dropped, or one with a field set
InsertDocs(t) ==
    UNION {{b} \cup {Drop(b, f) : f \in DOMAIN b}
               \cup UNION {{Put(b, f, x) : x \in FieldPool(t, f)} :
                              f \in FieldNames(t) \cup {"bogus"}}
           : b \in BaseRecords(t)}

ReplaceDocs(t) ==
    UNION {{b} \cup {Drop(b, f) : f \in DOMAIN b} : b \in BaseRecords(t)}

\* single-field patches: a field set to a value, or a field unset
PatchArgs(t) ==
    UNION {{[set |-> f :> x, unset |-> {}] : x \in FieldPool(t, f)} :
              f \in FieldNames(t) \cup {"bogus"}}
    \cup {[set |-> NoFields, unset |-> {f}] : f \in FieldNames(t)}

----------------------------------------------------------------------------
(* The database and its mutations.                                         *)

Idle ==
    [op |-> "idle", tbl |-> "", id |-> 0, arg |-> NoFields, unset |-> {},
     before |-> NoFields, result |-> ""]

Outcome(op, t, id, arg, unset, before, ok) ==
    [op |-> op, tbl |-> t, id |-> id, arg |-> arg, unset |-> unset,
     before |-> before, result |-> IF ok THEN "ok" ELSE "ValidationError"]

Row(t, doc, ctime) == [tbl |-> t, fields |-> doc, ctime |-> ctime]

\* the ids of the rows of table t
IdsOf(t) == {id \in DOMAIN db : db[id].tbl = t}

\* db.get: the stored fields with the system fields
Get(id) ==
    db[id].fields @@ [_id |-> Id(db[id].tbl, id), _creationTime |-> Num(db[id].ctime)]

\* the value an index reads for field f: absent fields read as undefined
FieldOf(id, f) ==
    CASE f \in DOMAIN db[id].fields -> db[id].fields[f]
      [] f = "_id"                  -> Id(db[id].tbl, id)
      [] f = "_creationTime"        -> Num(db[id].ctime)
      [] OTHER                      -> Undefined

\* withIndex(ix, q => q.eq(f1, key[1]).eq(f2, key[2])...): the rows of t whose
\* leading index fields equal the key; a key longer than the index matches nothing
withIndex(t, ix, key) ==
    LET fs == Schema[t].indexes[ix] IN
    IF Len(key) > Len(fs) THEN {}
    ELSE {id \in IdsOf(t) : \A i \in 1..Len(key) : FieldOf(id, fs[i]) = key[i]}

\* db.insert(t, doc)
Insert(T, K) ==
    /\ last.op = "idle"
    /\ nCalls < K
    /\ \E t \in T : \E doc \in InsertDocs(t) :
          LET ok == Accepts(t, doc) IN
          /\ db' = IF ok THEN db @@ (nextId :> Row(t, doc, nCalls + 1)) ELSE db
          /\ nextId' = IF ok THEN nextId + 1 ELSE nextId
          /\ last' = Outcome("insert", t, IF ok THEN nextId ELSE 0, doc, {},
                             NoFields, ok)
    /\ nCalls' = nCalls + 1
    /\ UNCHANGED <<page, rendered>>

\* db.patch(id, partial)
Patch(K) ==
    /\ last.op = "idle"
    /\ nCalls < K
    /\ \E id \in DOMAIN db : \E p \in PatchArgs(db[id].tbl) :
          LET t   == db[id].tbl
              new == Merge(db[id].fields, p.set, p.unset)
              ok  == Accepts(t, new)
          IN
          /\ db' = IF ok THEN [db EXCEPT ![id].fields = new] ELSE db
          /\ last' = Outcome("patch", t, id, p.set, p.unset, db[id].fields, ok)
    /\ nCalls' = nCalls + 1
    /\ UNCHANGED <<nextId, page, rendered>>

\* db.replace(id, doc)
Replace(K) ==
    /\ last.op = "idle"
    /\ nCalls < K
    /\ \E id \in DOMAIN db : \E doc \in ReplaceDocs(db[id].tbl) :
          LET t  == db[id].tbl
              ok == Accepts(t, doc)
          IN
          /\ db' = IF ok THEN [db EXCEPT ![id].fields = doc] ELSE db
          /\ last' = Outcome("replace", t, id, doc, {}, db[id].fields, ok)
    /\ nCalls' = nCalls + 1
    /\ UNCHANGED <<nextId, page, rendered>>

\* db.delete(id)
Delete(K) ==
    /\ last.op = "idle"
    /\ nCalls < K
    /\ \E id \in DOMAIN db :
          /\ db' = [i \in DOMAIN db \ {id} |-> db[i]]
          /\ last' = Outcome("delete", db[id].tbl, id, NoFields, {}, db[id].fields, TRUE)
    /\ nCalls' = nCalls + 1
    /\ UNCHANGED <<nextId, page, rendered>>

\* the mutation returns, or its validation error reaches the caller
Finish ==
    /\ last.op # "idle"
    /\ last' = Idle
    /\ UNCHANGED <<db, nextId, nCalls, page, rendered>>

----------------------------------------------------------------------------
(* The root layout.                                                        *)

El(tag, attrs, kids) == [tag |-> tag, attrs |-> attrs, kids |-> kids]

\* variant: the children are rendered beside the provider, not inside it
RootLayout_childrenOutsideProvider(children) ==
    El("html", [lang |-> "en"],
       <<El("body", [className |-> "inter"],
            <<El("ConvexClientProvider", NoFields,
                 <<El("ToastProvider", NoFields, <<>>)>>)>> \o children)>>)

\* <html><body><ConvexClientProvider><ToastProvider />{children}</...>
RootLayout(children) ==
    El("html", [lang |-> "en"],
       <<El("body", [className |-> "inter"],
            <<El("ConvexClientProvider", NoFields,
                 <<El("ToastProvider", NoFields, <<>>)>> \o children)>>)>>)

RECURSIVE Descendants(_)

\* the elements below n
Descendants(n) ==
    UNION {{n.kids[i]} \cup Descendants(n.kids[i]) : i \in 1..Len(n.kids)}

Nodes(tree) == {tree} \cup Descendants(tree)

\* c lies below an element tagged tag
NestedIn(tree, tag, c) ==
    \E n \in Nodes(tree) : n.tag = tag /\ c \in Descendants(n)

\* page content: plain and nested elements
Content ==
    {El("h1", NoFields, <<>>),
     El("p", NoFields, <<>>),
     El("main", NoFields, <<El("p", NoFields, <<>>)>>),
     El("section", NoFields, <<El("h1", NoFields, <<>>), El("p", NoFields, <<>>)>>)}

Pages == UNION {[1..n -> Content] : n \in 0..MaxChildren}

\* the layout renders its page
Render ==
    /\ rendered = <<>>
    /\ rendered' = <<RootLayout(page)>>
    /\ UNCHANGED <<db, nextId, nCalls, last, page>>

----------------------------------------------------------------------------
(* Specifications.                                                         *)

InitDb ==
    /\ db = NoFields
    /\ nextId = 1
    /\ nCalls = 0
    /\ last = Idle

Init ==
    /\ InitDb
    /\ page = <<>>
    /\ rendered = <<>>

InitLayout ==
    /\ InitDb
    /\ page \in Pages
    /\ rendered = <<>>

RoleTables == {"users", "employees", "auditLogs"}

GameTables == {"games", "wallets"}

\* every table of the schema, one insert at a time
Next ==
    \/ Insert(TableNames, MaxSchemaWrites)
    \/ Finish

Spec == Init /\ [][Next]_vars

\* the tables that carry a role
NextRoles ==
    \/ Insert(RoleTables, MaxWrites)
    \/ Patch(MaxWrites)
    \/ Replace(MaxWrites)
    \/ Delete(MaxWrites)
    \/ Finish

SpecRoles == Init /\ [][NextRoles]_vars

\* games and wallets
NextGames ==
    \/ Insert(GameTables, MaxWrites)
    \/ Patch(MaxWrites)
    \/ Replace(MaxWrites)
    \/ Delete(MaxWrites)
    \/ Finish

SpecGames == Init /\ [][NextGames]_vars

NextLayout == Render

SpecLayout == InitLayout /\ [][NextLayout]_vars

----------------------------------------------------------------------------
(* What the properties read.                                               *)

WriteOps == {"insert", "patch", "replace"}

\* the document a write asked to store
Attempted(l) == IF l.op = "patch" THEN Merge(l.before, l.arg, l.unset) ELSE l.arg

IsLiteralOf(x, ls) == x.k = "string" /\ x.s \in ls

\* the field of each table that carries a role
RoleField(t) == IF t = "auditLogs" THEN "actorRole" ELSE "role"

\* fields declared to take any value
AnyTyped(t) ==
    CASE t = "auditLogs"        -> {"details"}
      [] t = "platformSettings" -> {"value"}
      [] OTHER                  -> {}

\* x has the kind of the sample s: ids are strings, and an id names its table
SameKind(x, s) ==
    CASE s.k = "string" -> x.k \in {"string", "id"}
      [] s.k = "id"     -> x.k = "id" /\ x.s = s.s
      [] OTHER          -> x.k = s.k

\* d misses a required field, holds a field of the wrong type, or holds a
\* value outside its field's enumeration
ShapeViolation(t, d) ==
    \/ \E f \in RequiredOf[t] : f \notin DOMAIN d
    \/ \E f \in (DOMAIN d \cap FieldNames(t)) \ AnyTyped(t) :
          ~SameKind(d[f], FullRecords[t][f])
    \/ \E f \in DOMAIN d \cap DOMAIN ExpectedLiterals[t] :
          ~IsLiteralOf(d[f], ExpectedLiterals[t][f])

----------------------------------------------------------------------------
(* C1: every stored role (users.role, employees.role, auditLogs.actorRole) *)
(* is one of the eight role literals, and a write whose document carries   *)
(* any other role value fails and is not stored.                           *)
C1_RolesAreEnumerated ==
    /\ \A id \in DOMAIN db :
          db[id].tbl \in RoleTables =>
             /\ RoleField(db[id].tbl) \in DOMAIN db[id].fields
             /\ IsLiteralOf(db[id].fields[RoleField(db[id].tbl)], RoleLiterals)
    /\ (/\ last.op \in WriteOps
        /\ last.tbl \in RoleTables
        /\ RoleField(last.tbl) \in DOMAIN Attempted(last)
        /\ ~IsLiteralOf(Attempted(last)[RoleField(last.tbl)], RoleLiterals))
       => /\ last.result = "ValidationError"
          /\ (last.id \in DOMAIN db => db[last.id].fields = last.before)

\* a stored user keeps its role after an update to "TenantAdmin" was refused
C1_Witness ==
    /\ last.op = "patch"
    /\ last.tbl = "users"
    /\ last.result = "ValidationError"
    /\ DOMAIN last.arg = {"role"}
    /\ last.arg["role"] = Str("TenantAdmin")
    /\ last.id \in DOMAIN db
    /\ db[last.id].fields["role"] = Str("RegularUser")

----------------------------------------------------------------------------
(* C2: every stored game's status is one of the seven status literals.     *)
C2_GameStatusIsEnumerated ==
    \A id \in IdsOf("games") :
       /\ "status" \in DOMAIN db[id].fields
       /\ IsLiteralOf(db[id].fields["status"], GameStatusLiterals)

\* a stored game was updated to Cancelled
C2_Witness ==
    /\ last.op = "patch"
    /\ last.tbl = "games"
    /\ last.result = "ok"
    /\ last.before["status"] = Str("Open")
    /\ db[last.id].fields["status"] = Str("Cancelled")

----------------------------------------------------------------------------
\* the composite indexes and the fields each is documented to key on
CompositeIndexes ==
    {<<"employees", "by_tenantId_userId", <<"tenantId", "userId">>>>,
     <<"employees", "by_tenantId_role", <<"tenantId", "role">>>>,
     <<"games", "by_tenantId_status", <<"tenantId", "status">>>>,
     <<"wallets", "by_ownerId_type", <<"ownerId", "type">>>>,
     <<"transactions", "by_userId_type", <<"userId", "type">>>>,
     <<"transactions", "by_tenantId_type", <<"tenantId", "type">>>>,
     <<"payments", "by_tenantId_status", <<"tenantId", "status">>>>,
     <<"notifications", "by_userId_isRead", <<"userId", "isRead">>>>,
     <<"notifications", "by_tenantId_isRead", <<"tenantId", "isRead">>>>}

\* the key values tried for field f of table t
KeyValues(t, f) == FieldPool(t, f) \cup {FullRecords[t][f], Undefined}

\* the rows of t holding x in field f (an absent field reads as undefined)
Holding(t, f, x) ==
    {id \in IdsOf(t) :
        IF f \in DOMAIN db[id].fields THEN db[id].fields[f] = x ELSE x = Undefined}

----------------------------------------------------------------------------
(* C4: for every table, inserting the record that supplies the required    *)
(* fields and omits every optional field is accepted, and reading it back  *)
(* yields the required fields as written and no optional field.            *)
C4_MinimalRecordRoundTrip ==
    (last.op = "insert" /\ last.arg = MinimalRecord(last.tbl))
    => /\ last.result = "ok"
       /\ last.id \in IdsOf(last.tbl)
       /\ Restrict(Get(last.id), RequiredOf[last.tbl]) = last.arg
       /\ \A f \in OptionalOf(last.tbl) : f \notin DOMAIN Get(last.id)
       /\ DOMAIN Get(last.id) = RequiredOf[last.tbl] \cup {"_id", "_creationTime"}

\* a transaction written with its four required fields alone is read back
C4_Witness ==
    /\ last.op = "insert"
    /\ last.tbl = "transactions"
    /\ last.result = "ok"
    /\ DOMAIN last.arg = {"type", "amount", "description", "status"}
    /\ Restrict(Get(last.id), RequiredOf["transactions"]) = last.arg
    /\ "userId" \notin DOMAIN Get(last.id)

----------------------------------------------------------------------------
(* C5: a write whose document misses a required field, holds a field of    *)
(* the wrong type or holds a value outside its field's enumeration fails   *)
(* with a validation error and leaves every table as it was.               *)
C5_ShapeViolationIsRejected ==
    [][(/\ last.op = "idle"
        /\ last'.op \in WriteOps
        /\ ShapeViolation(last'.tbl, Attempted(last')))
       => (last'.result = "ValidationError" /\ db' = db /\ nextId' = nextId)]_vars

\* with a wallet stored, a game written without its status was refused
C5_Witness ==
    /\ last.op = "insert"
    /\ last.tbl = "games"
    /\ last.arg = Drop(MinimalRecord("games"), "status")
    /\ last.result = "ValidationError"
    /\ IdsOf("wallets") # {}
    /\ IdsOf("games") = {}

----------------------------------------------------------------------------
(* C6, as claimed: once rendered, every child handed to RootLayout lies    *)
(* inside both the ConvexClientProvider and the ToastProvider.             *)
C6_ChildrenInsideBothProviders ==
    rendered # <<>> =>
       \A i \in 1..Len(page) :
          /\ NestedIn(rendered[1], "ConvexClientProvider", page[i])
          /\ NestedIn(rendered[1], "ToastProvider", page[i])

(* C6, amended: once rendered, every child lies inside the                 *)
(* ConvexClientProvider, whose content is a ToastProvider followed by the  *)
(* children in order; the one ToastProvider is a sibling of the children   *)
(* and has no content of its own.                                          *)
C6_ChildrenInsideClientProvider ==
    rendered # <<>> =>
       /\ \A i \in 1..Len(page) :
             NestedIn(rendered[1], "ConvexClientProvider", page[i])
       /\ \A n \in Nodes(rendered[1]) :
             /\ n.tag = "ConvexClientProvider" =>
                   n.kids = <<El("ToastProvider", NoFields, <<>>)>> \o page
             /\ n.tag = "ToastProvider" => n.kids = <<>>
       /\ Cardinality({n \in Nodes(rendered[1]) : n.tag = "ConvexClientProvider"}) = 1

\* a page of two children, one of them nested content, is rendered
C6_Witness ==
    /\ rendered # <<>>
    /\ Len(page) = 2
    /\ page[1].tag = "main"
    /\ NestedIn(rendered[1], "ConvexClientProvider", page[1])
    /\ ~NestedIn(rendered[1], "ToastProvider", page[1])

----------------------------------------------------------------------------
(* C7, as claimed: every stored game's currentPlayers equals the length    *)
(* of its participants array.                                              *)
C7_CountEqualsParticipants ==
    \A id \in IdsOf("games") :
       db[id].fields["currentPlayers"] = Num(Len(db[id].fields["participants"].a))

\* x is a participant object: a users id, two numbers, and at most a
\* boolean winner flag
IsParticipant(x) ==
    /\ x.k = "object"
    /\ {"userId", "selectedNumber", "joinedAt"} \subseteq DOMAIN x.o
    /\ DOMAIN x.o \subseteq {"userId", "selectedNumber", "joinedAt", "isWinner"}
    /\ x.o["userId"].k = "id" /\ x.o["userId"].s = "users"
    /\ x.o["selectedNumber"].k = "number"
    /\ x.o["joinedAt"].k = "number"
    /\ ("isWinner" \in DOMAIN x.o => x.o["isWinner"].k = "boolean")

(* C7, amended: every stored game's currentPlayers is a number and its     *)
(* participants is an array of participant objects; the two are validated  *)
(* separately, so the count may differ from the array's length.            *)
C7_CountAndParticipantsAreTyped ==
    \A id \in IdsOf("games") :
       /\ {"currentPlayers", "participants"} \subseteq DOMAIN db[id].fields
       /\ db[id].fields["currentPlayers"].k = "number"
       /\ db[id].fields["participants"].k = "array"
       /\ \A i \in 1..Len(db[id].fields["participants"].a) :
             IsParticipant(db[id].fields["participants"].a[i])

\* a stored game with one participant is updated to count two players
C7_Witness ==
    /\ last.op = "patch"
    /\ last.tbl = "games"
    /\ last.result = "ok"
    /\ db[last.id].fields["participants"] = Arr(<<Player1>>)
    /\ db[last.id].fields["currentPlayers"] = Num(2)

----------------------------------------------------------------------------
\* the roles of tenant staff
TenantAdminLiterals == RoleLiterals \ {"PlatformAdmin", "RegularUser"}

(* C8: every stored employee's role is one of the six TenantAdmin_*        *)
(* literals; none is stored with role PlatformAdmin or RegularUser.        *)
C8_EmployeesAreTenantAdmins ==
    \A id \in IdsOf("employees") :
       IsLiteralOf(db[id].fields["role"], TenantAdminLiterals)

----------------------------------------------------------------------------
\* the order the status names suggest
Lifecycle == <<"Pending", "Open", "Filling", "Full", "Active", "Completed">>

LifecycleStep(a, b) ==
    \/ \E i \in 1..(Len(Lifecycle) - 1) : a = Lifecycle[i] /\ b = Lifecycle[i + 1]
    \/ b = "Cancelled" /\ a \in {"Pending", "Open", "Filling", "Full"}

(* C9, as claimed: every change of a stored game's status is a step to the *)
(* next status of Pending, Open, Filling, Full, Active, Completed, or a     *)
(* move to Cancelled from Pending, Open, Filling or Full.                  *)
C9_StatusFollowsLifecycle ==
    [][\A id \in IdsOf("games") :
          (id \in DOMAIN db' /\ db'[id].fields["status"] # db[id].fields["status"])
          => LifecycleStep(db[id].fields["status"].s, db'[id].fields["status"].s)]_vars

(* C9, amended: an update may change a stored game's status from any of    *)
(* the seven literals to any other of them, in any order; it is refused    *)
(* only when the new status is none of the seven.                          *)
C9_StatusChangesAreUnordered ==
    [][(/\ last.op = "idle"
        /\ last'.op = "patch"
        /\ last'.tbl = "games"
        /\ DOMAIN last'.arg = {"status"}
        /\ last'.unset = {})
       => IF IsLiteralOf(last'.arg["status"], GameStatusLiterals)
          THEN /\ last'.result = "ok"
               /\ db'[last'.id].fields["status"] = last'.arg["status"]
          ELSE /\ last'.result = "ValidationError"
               /\ db' = db]_vars

\* a stored Completed game was moved back to Pending
C9_Witness ==
    /\ last.op = "patch"
    /\ last.tbl = "games"
    /\ last.result = "ok"
    /\ last.before["status"] = Str("Completed")
    /\ db[last.id].fields["status"] = Str("Pending")

----------------------------------------------------------------------------
(* C10: every stored wallet, whatever its type, holds an ownerId that is   *)
(* a users id; a wallet written without ownerId is refused, also one of    *)
(* type Tenant or Platform that names its tenant; a wallet of type Tenant  *)
(* written with an owner and no tenantId is accepted.                      *)
C10_WalletsNeedAnOwner ==
    /\ \A id \in IdsOf("wallets") :
          /\ "ownerId" \in DOMAIN db[id].fields
          /\ db[id].fields["ownerId"].k = "id"
          /\ db[id].fields["ownerId"].s = "users"
    /\ (/\ last.op \in WriteOps
        /\ last.tbl = "wallets"
        /\ "ownerId" \notin DOMAIN Attempted(last))
       => last.result = "ValidationError"
    /\ (/\ last.op = "insert"
        /\ last.tbl = "wallets"
        /\ last.arg = Put(MinimalRecord("wallets"), "type", Str("Tenant")))
       => (last.result = "ok" /\ "tenantId" \notin DOMAIN db[last.id].fields)

\* with a Tenant wallet without tenantId stored, a Tenant wallet that names
\* its tenant and no owner was refused
C10_Witness ==
    /\ last.op = "insert"
    /\ last.tbl = "wallets"
    /\ last.arg = Drop(TenantWallet, "ownerId")
    /\ last.result = "ValidationError"
    /\ \E id \in IdsOf("wallets") :
          /\ db[id].fields["type"] = Str("Tenant")
          /\ "tenantId" \notin DOMAIN db[id].fields

====
